---- MODULE Spec2Model ----
(***************************************************************************)
(* A model of detectron2/modeling/meta_arch/ssd.py: the SSD meta           *)
(* architecture's target assignment (SSD.get_ground_truth), its two        *)
(* classification losses and the shared regression loss (SSD.losses), and  *)
(* the per-image decoding (SSD.inference_single_image).                    *)
(*                                                                         *)
(* Conventions.  Images, anchors, ground-truth instances and levels are    *)
(* numbered from 1 (the code numbers them from 0); class columns keep the  *)
(* code's numbering 0..K, K being the background column.  A real number    *)
(* is a pair <<numerator, denominator>> of integers, compared by cross     *)
(* multiplication.  Logits are whole multiples of a step large enough      *)
(* that float32 softmax and sigmoid saturate (exp(-step) is below half an  *)
(* ulp of 1), so that the losses of the library take exact values.         *)
(***************************************************************************)
EXTENDS Integers, Sequences, FiniteSets

VARIABLES
    pc,                 \* position in forward(): "gt", "losses", "done", ...
    loss_name,          \* cfg.MODEL.SSD.LOSS_NAME
    img,                \* get_ground_truth: the image of the current iteration
    targets_per_image,  \* get_ground_truth: that image's instances
    gt_matched_idxs,    \* get_ground_truth: the matcher's index per anchor
    anchor_labels,      \* get_ground_truth: the matcher's label per anchor
    num_gt,             \* len(targets[i]) of every image handled so far
    gt_classes,         \* (N, R) class targets
    gt_anchors_deltas,  \* (N, R, 4) regression targets
    pred_class_logits,  \* (N, R, K+1) head output
    pred_anchor_deltas, \* (N, R, 4) head output
    num_foreground,     \* losses: foreground_idxs.sum()
    gt_classes_target,  \* losses, Focal: the (N, R, K+1) target tensor
    hard_negative,      \* losses, Multibox: the (N, R) selection mask
    loss_for_all_indices, \* losses, Multibox: per-anchor loss that is summed
    loss_cls,           \* returned: [sum, den]
    loss_box_reg,       \* returned: [sum, den]
    len_box_cls,        \* inference_single_image: len(box_cls)
    len_box_delta,      \* inference_single_image: len(box_delta)
    len_anchors,        \* inference_single_image: len(anchors)
    anchor_rows,        \* the number of anchors in each entry of anchors
    box_delta,          \* the row of deltas that box_delta holds at every anchor
    lvl,                \* the feature level of the current iteration
    box_cls_i,          \* that level's flattened foreground scores
    predicted_prob,     \* that level's candidates' scores
    topk_idxs,          \* that level's candidates' flat indices
    boxes_all,          \* the candidates' boxes, all levels
    scores_all,         \* the candidates' scores, all levels
    class_idxs_all,     \* the candidates' classes, all levels
    nms_keep,           \* what batched_nms returned
    result              \* the detections returned

trainVars == <<pc, loss_name, img, targets_per_image, gt_matched_idxs,
               anchor_labels, num_gt, gt_classes, gt_anchors_deltas,
               pred_class_logits, pred_anchor_deltas, num_foreground,
               gt_classes_target, hard_negative, loss_for_all_indices,
               loss_cls, loss_box_reg>>

inferVars == <<len_box_cls, len_box_delta, len_anchors, anchor_rows, box_delta,
               lvl, box_cls_i, predicted_prob, topk_idxs, boxes_all,
               scores_all, class_idxs_all, nms_keep, result>>

vars == <<trainVars, inferVars>>

----------------------------------------------------------------------------
(* Bounds of the model *)

BatchSize == 2
NumAnchors == 3
NumLevels == 2
NumLevelAnchors == 2

(* Configuration *)

num_classes == 2
multibox_loss_neg_pos_ratio == 1
score_threshold == 1
topk_candidates == 3
max_detections_per_image == 3

Images == 1..BatchSize
Anchors == 1..NumAnchors
Columns == 0..num_classes

----------------------------------------------------------------------------
(* Arithmetic helpers *)

RECURSIVE SumOver(_, _)
SumOver(f, S) ==
    IF S = {} THEN 0
    ELSE LET x == CHOOSE y \in S : TRUE IN f[x] + SumOver(f, S \ {x})

Abs(x) == IF x < 0 THEN -x ELSE x

RECURSIVE Gcd(_, _)
Gcd(a, b) == IF b = 0 THEN a ELSE Gcd(b, a % b)

\* a fraction in lowest terms, its denominator positive
Frac(n, d) == LET g == Gcd(Abs(n), d) IN <<n \div g, d \div g>>

FracLess(p, q) == p[1] * q[2] < q[1] * p[2]
FracLeq(p, q) == p[1] * q[2] <= q[1] * p[2]

----------------------------------------------------------------------------
(* Geometry: boxes are <<x1, y1, x2, y2>> with integer corners *)

Area(b) == (b[3] - b[1]) * (b[4] - b[2])

Min2(a, b) == IF a < b THEN a ELSE b
Max2(a, b) == IF a > b THEN a ELSE b

\* intersection area, width and height clamped at 0
Intersection(a, b) ==
    LET w == Min2(a[3], b[3]) - Max2(a[1], b[1])
        h == Min2(a[4], b[4]) - Max2(a[2], b[2])
    IN  Max2(w, 0) * Max2(h, 0)

\* pairwise_iou for one pair: intersection over union, 0 when the
\* intersection is empty
IoU(a, b) ==
    LET i == Intersection(a, b)
    IN  IF i = 0 THEN <<0, 1>> ELSE Frac(i, Area(a) + Area(b) - i)

\* The anchors of an image, all levels concatenated (Boxes.cat): boxes 3 wide
\* and 1 high, one per unit step.
AnchorBox(a) == <<a, 0, a + 3, 1>>

\* Ground-truth instances: a box and its class.  Against the anchors
\* [1,4], [2,5], [3,6] their IoUs are
\*   Small  [1,2]:  1/3,  0,    0      (no anchor reaches a threshold)
\*   Left   [1,3]:  2/3,  1/4,  0
\*   Offset [0,4]:  3/4,  2/5,  1/6    (foreground, ignore, background)
\*   Third  [3,6]:  1/5,  1/2,  1
Small == [box |-> <<1, 0, 2, 1>>, cls |-> 1]
Left == [box |-> <<1, 0, 3, 1>>, cls |-> 0]
Offset == [box |-> <<0, 0, 4, 1>>, cls |-> 0]
Third == [box |-> <<3, 0, 6, 1>>, cls |-> 0]

\* the instances an image may come with
TargetLists ==
    { <<>>, <<Small>>, <<Offset>>, <<Third>>,
      <<Left, Small>>, <<Small, Left>>, <<Third, Small>> }

\* match_quality_matrix[g][a] = IoU of ground truth g and anchor a
MatchQualityMatrix(targets) ==
    [g \in 1..Len(targets) |-> [a \in Anchors |-> IoU(targets[g].box, AnchorBox(a))]]

----------------------------------------------------------------------------
(* Matcher *)

\* cfg.MODEL.SSD.IOU_THRESHOLDS and IOU_LABELS: below 2/5 background (0),
\* from 2/5 up to 1/2 ignore (-1), from 1/2 on foreground (1)
IoUThresholdLow == <<2, 5>>
IoUThresholdHigh == <<1, 2>>

FOREGROUND == 1
BACKGROUND == 0
IGNORE == -1

LowQualityMatchesOff == FALSE

\* SSD.__init__ builds its Matcher with allow_low_quality_matches=True
AllowLowQualityMatches == TRUE

\* the ground truth of greatest IoU with anchor a, the first one on a tie
ColumnArgMax(M, a) ==
    CHOOSE g \in DOMAIN M :
        /\ \A h \in DOMAIN M : FracLeq(M[h][a], M[g][a])
        /\ \A h \in DOMAIN M : h < g => FracLess(M[h][a], M[g][a])

ThresholdLabel(v) ==
    IF FracLess(v, IoUThresholdLow) THEN BACKGROUND
    ELSE IF FracLess(v, IoUThresholdHigh) THEN IGNORE
    ELSE FOREGROUND

\* the greatest IoU of ground truth g over all anchors
RowMax(M, g) ==
    LET a == CHOOSE b \in Anchors : \A c \in Anchors : FracLeq(M[g][c], M[g][b])
    IN  M[g][a]

\* set_low_quality_matches_: row by row, every anchor that attains the row's
\* greatest IoU becomes FOREGROUND and is matched to that row
RECURSIVE SetLowQualityMatches(_, _, _)
SetLowQualityMatches(M, g, res) ==
    IF g > Len(M) THEN res
    ELSE LET best == { a \in Anchors : M[g][a] = RowMax(M, g) }
         IN  SetLowQualityMatches(M, g + 1,
                [matches |-> [a \in Anchors |->
                                 IF a \in best THEN g ELSE res.matches[a]],
                 labels  |-> [a \in Anchors |->
                                 IF a \in best THEN FOREGROUND ELSE res.labels[a]]])

\* Matcher.__call__: per anchor the matched ground truth and the label
Matcher(M) ==
    IF Len(M) = 0
    THEN [matches |-> [a \in Anchors |-> 1],
          labels  |-> [a \in Anchors |-> BACKGROUND]]
    ELSE LET first == [matches |-> [a \in Anchors |-> ColumnArgMax(M, a)],
                       labels  |-> [a \in Anchors |->
                                       ThresholdLabel(M[ColumnArgMax(M, a)][a])]]
         IN  IF AllowLowQualityMatches
             THEN SetLowQualityMatches(M, 1, first)
             ELSE first

----------------------------------------------------------------------------
(* Box2BoxTransform *)

\* get_deltas(anchor, box): <<dx, dy, dw, dh>>; dx, dy are the centre offsets
\* in anchor widths and heights, dw and dh the logarithms of the size ratios,
\* kept as the ratio whose logarithm they are
get_deltas(src, tgt) ==
    LET sw == src[3] - src[1]
        sh == src[4] - src[2]
        tw == tgt[3] - tgt[1]
        th == tgt[4] - tgt[2]
    IN  << Frac((tgt[1] + tgt[3]) - (src[1] + src[3]), 2 * sw),
           Frac((tgt[2] + tgt[4]) - (src[2] + src[4]), 2 * sh),
           Frac(tw, sw),
           Frac(th, sh) >>

\* torch.zeros_like(anchors.tensor)[a]: dx = dy = 0, dw = dh = log 1
ZeroDelta == << <<0, 1>>, <<0, 1>>, <<1, 1>>, <<1, 1>> >>

----------------------------------------------------------------------------
(* SSD.get_ground_truth, one iteration of its loop over the images *)

ClassTargetNoBackground(targets, matches, labels, a) ==
    IF labels[a] = IGNORE THEN -1 ELSE targets[matches[a]].cls

\* gt_classes_i[a] after lines 286-290
ClassTarget(targets, matches, labels, a) ==
    IF labels[a] = IGNORE THEN -1
    ELSE IF labels[a] = BACKGROUND THEN num_classes
    ELSE targets[matches[a]].cls

NoGTClassTargetZeros(a) == 0

\* gt_classes_i[a] of an image without instances, line 292
NoGTClassTarget(a) == 0 + num_classes

\* gt_anchors_reg_deltas_i[a], lines 281-284
DeltaTarget(targets, matches, a) ==
    get_deltas(AnchorBox(a), targets[matches[a]].box)

GetGroundTruthImage ==
    /\ pc = "gt"
    /\ img <= BatchSize
    /\ \E targets \in TargetLists :
          LET m == Matcher(MatchQualityMatrix(targets))
              has_gt == Len(targets) > 0
              classes_i == [a \in Anchors |->
                              IF has_gt
                              THEN ClassTarget(targets, m.matches, m.labels, a)
                              ELSE NoGTClassTarget(a)]
              deltas_i == [a \in Anchors |->
                              IF has_gt
                              THEN DeltaTarget(targets, m.matches, a)
                              ELSE ZeroDelta]
          IN  /\ targets_per_image' = targets
              /\ gt_matched_idxs' = m.matches
              /\ anchor_labels' = m.labels
              /\ num_gt' = Append(num_gt, Len(targets))
              /\ gt_classes' = Append(gt_classes, classes_i)
              /\ gt_anchors_deltas' = Append(gt_anchors_deltas, deltas_i)
    /\ img' = img + 1
    /\ UNCHANGED <<pc, loss_name, pred_class_logits, pred_anchor_deltas,
                   num_foreground, gt_classes_target, hard_negative,
                   loss_for_all_indices, loss_cls, loss_box_reg>>
    /\ UNCHANGED inferVars

\* the loop is over: torch.stack and return (line 298); forward() goes on
\* to self.losses
GetGroundTruthReturn ==
    /\ pc = "gt"
    /\ img > BatchSize
    /\ pc' = "losses"
    /\ targets_per_image' = <<>>
    /\ gt_matched_idxs' = <<>>
    /\ anchor_labels' = <<>>
    /\ UNCHANGED <<loss_name, img, num_gt, gt_classes, gt_anchors_deltas,
                   pred_class_logits, pred_anchor_deltas, num_foreground,
                   gt_classes_target, hard_negative, loss_for_all_indices,
                   loss_cls, loss_box_reg>>
    /\ UNCHANGED inferVars

----------------------------------------------------------------------------
(* The head's output and the library losses *)

\* a row of class logits whose column h stands out by 2 s steps
HotVec(h, s) == [c \in Columns |-> IF c = h THEN s ELSE -s]

\* the rows of class logits the head may produce for an anchor: background
\* stands out, or class 0 does, or the last class does by twice as much
LogitVecs ==
    { HotVec(num_classes, 1), HotVec(0, 1), HotVec(num_classes - 1, 2) }

\* the class logits the head may produce for an image, one row per anchor;
\* it produces the same ones for every image of the batch
LogitRows == [Anchors -> LogitVecs]

\* the rows of box deltas the head may produce; it produces the same one
\* for every anchor
PredDeltas == { ZeroDelta, << <<1, 2>>, <<0, 1>>, <<1, 1>>, <<1, 1>> >> }

MaxOf(v) == CHOOSE m \in {v[c] : c \in DOMAIN v} : \A c \in DOMAIN v : v[c] <= m

\* F.cross_entropy(reduction='none') of one row, in logit steps: log-sum-exp
\* minus the target's logit; the log-sum-exp of a row whose greatest logit
\* stands out by a step or more is that logit
cross_entropy(v, t) == MaxOf(v) - v[t]

\* cfg.MODEL.SSD.FOCAL_LOSS_ALPHA as a fraction: 1/4
FocalAlpha == <<1, 4>>

\* sigmoid_focal_loss of one element, in units of a logit step over
\* FocalAlpha[2]: 0 where the saturated sigmoid agrees with the target,
\* the weighted binary cross entropy |x| where it does not
sigmoid_focal_loss(x, t) ==
    IF (x > 0) = (t = 1) THEN 0
    ELSE Abs(x) * (IF t = 1 THEN FocalAlpha[1] ELSE FocalAlpha[2] - FocalAlpha[1])

\* smooth_l1_loss of one row of deltas: 0 for equal rows, growing with the
\* number of components that differ
smooth_l1_loss(p, t) == Cardinality({ k \in 1..4 : p[k] # t[k] })

----------------------------------------------------------------------------
(* SSD.losses *)

Cells == Images \X Anchors

\* lines 181-183
IsValid(c) == c >= 0
IsForeground(c) == c >= 0 /\ c # num_classes
IsBackground(c) == c = num_classes

valid_idxs == { x \in Cells : IsValid(gt_classes[x[1]][x[2]]) }
foreground_idxs == { x \in Cells : IsForeground(gt_classes[x[1]][x[2]]) }
background_idxs == { x \in Cells : IsBackground(gt_classes[x[1]][x[2]]) }

NormalizerNoFloor(nf) == nf

\* max(1, num_foreground), lines 198, 229 and 237
Normalizer(nf) == Max2(1, nf)

\* the rows summed by the regression loss, line 233
RegLossIdxs == foreground_idxs

\* lines 232-237
RegLoss(pd) ==
    [sum |-> SumOver([x \in Cells |->
                         smooth_l1_loss(pd[x[1]][x[2]],
                                        gt_anchors_deltas[x[1]][x[2]])],
                     RegLossIdxs),
     den |-> Normalizer(Cardinality(foreground_idxs))]

FocalTargetForegroundOnly(n, a) ==
    [c \in Columns |->
        IF <<n, a>> \in foreground_idxs /\ c = gt_classes[n][a] THEN 1 ELSE 0]

\* lines 188-189: zeros, then 1 at [valid rows, their class]
FocalTarget(n, a) ==
    [c \in Columns |->
        IF <<n, a>> \in valid_idxs /\ c = gt_classes[n][a] THEN 1 ELSE 0]

\* lines 192-198, the sum over the valid rows and all their columns
FocalSum(logits, target, idxs) ==
    SumOver([x \in Cells |->
                SumOver([c \in Columns |->
                            sigmoid_focal_loss(logits[x[1]][x[2]][c],
                                               target[x[1]][x[2]][c])],
                        Columns)],
            idxs)

LossesFocal ==
    /\ pc = "losses"
    /\ loss_name = "Focal"
    /\ \E rows \in LogitRows, d \in PredDeltas :
          LET logits == [n \in Images |-> rows]
              pd == [n \in Images |-> [a \in Anchors |-> d]]
              target == [n \in Images |-> [a \in Anchors |-> FocalTarget(n, a)]]
          IN  /\ pred_class_logits' = logits
              /\ pred_anchor_deltas' = pd
              /\ num_foreground' = Cardinality(foreground_idxs)
              /\ gt_classes_target' = target
              /\ loss_cls' = [sum |-> FocalSum(logits, target, valid_idxs),
                              den |-> Normalizer(Cardinality(foreground_idxs))]
              /\ loss_box_reg' = RegLoss(pd)
    /\ pc' = "done"
    /\ UNCHANGED <<loss_name, img, targets_per_image, gt_matched_idxs,
                   anchor_labels, num_gt, gt_classes, gt_anchors_deltas,
                   hard_negative, loss_for_all_indices>>
    /\ UNCHANGED inferVars

\* the arrangements of the indices S by falling score: any index of the
\* greatest score first, then an arrangement of the others
RECURSIVE OrdersOf(_, _)
OrdersOf(S, score) ==
    IF S = {} THEN { <<>> }
    ELSE UNION { { <<x>> \o t : t \in OrdersOf(S \ {x}, score) } :
                    x \in { y \in S : \A z \in S : score[z] <= score[y] } }

\* (-loss).argsort(): an order of a row's anchors by falling loss; the
\* order of anchors of equal loss is whatever the sort makes it
ArgsortDescending(loss) == OrdersOf(Anchors, loss)

\* the second argsort: the position of anchor a in the order, from 0
RankOf(p, a) == (CHOOSE i \in Anchors : p[i] = a) - 1

NumForegroundBatch(n) == Cardinality(foreground_idxs)

\* line 218: the foreground anchors of image n
NumForegroundPerImg(n) ==
    Cardinality({ a \in Anchors : <<n, a>> \in foreground_idxs })

HardNegativeUnmasked(p, n, a) ==
    RankOf(p, a) < multibox_loss_neg_pos_ratio * NumForegroundPerImg(n)

\* lines 220-226, p being the order of image n's anchors
HardNegative(p, n, a) ==
    /\ RankOf(p, a) < multibox_loss_neg_pos_ratio * NumForegroundPerImg(n)
    /\ <<n, a>> \in background_idxs

\* the selections of image n that the orders of its anchors allow
HardRows(neg, n) ==
    { [a \in Anchors |-> HardNegative(p, n, a)] : p \in ArgsortDescending(neg[n]) }

\* the same for the first n rows of the (N, R) view
RECURSIVE HardMasks(_, _)
HardMasks(neg, n) ==
    IF n = 0 THEN { <<>> }
    ELSE { Append(m, r) : m \in HardMasks(neg, n - 1), r \in HardRows(neg, n) }

LossesMultibox ==
    /\ pc = "losses"
    /\ loss_name = "Multibox"
    /\ \E rows \in LogitRows, d \in PredDeltas :
          LET logits == [n \in Images |-> rows]
              pd == [n \in Images |-> [a \in Anchors |-> d]]
              \* lines 204-209
              all == [n \in Images |-> [a \in Anchors |->
                        IF <<n, a>> \in valid_idxs
                        THEN cross_entropy(logits[n][a], gt_classes[n][a])
                        ELSE 0]]
              \* lines 211-213
              neg == [n \in Images |-> [a \in Anchors |->
                        IF <<n, a>> \in background_idxs THEN all[n][a] ELSE 0]]
          IN  \E hard \in HardMasks(neg, BatchSize) :
                /\ LET \* line 228
                       kept == [n \in Images |-> [a \in Anchors |->
                                   IF hard[n][a] \/ <<n, a>> \in foreground_idxs
                                   THEN all[n][a] ELSE 0]]
                   IN  /\ pred_class_logits' = logits
                       /\ pred_anchor_deltas' = pd
                       /\ num_foreground' = Cardinality(foreground_idxs)
                       /\ hard_negative' = hard
                       /\ loss_for_all_indices' = kept
                       /\ loss_cls' =
                            [sum |-> SumOver([x \in Cells |-> kept[x[1]][x[2]]],
                                             valid_idxs),
                             den |-> Normalizer(Cardinality(foreground_idxs))]
                       /\ loss_box_reg' = RegLoss(pd)
    /\ pc' = "done"
    /\ UNCHANGED <<loss_name, img, targets_per_image, gt_matched_idxs,
                   anchor_labels, num_gt, gt_classes, gt_anchors_deltas,
                   gt_classes_target>>
    /\ UNCHANGED inferVars

----------------------------------------------------------------------------
(* forward() in training mode *)

\* the training state while the model is in inference mode
TrainIdle ==
    /\ img = 1
    /\ targets_per_image = <<>>
    /\ gt_matched_idxs = <<>>
    /\ anchor_labels = <<>>
    /\ num_gt = <<>>
    /\ gt_classes = <<>>
    /\ gt_anchors_deltas = <<>>
    /\ pred_class_logits = <<>>
    /\ pred_anchor_deltas = <<>>
    /\ num_foreground = 0
    /\ gt_classes_target = <<>>
    /\ hard_negative = <<>>
    /\ loss_for_all_indices = <<>>
    /\ loss_cls = <<>>
    /\ loss_box_reg = <<>>

\* the inference state while the model is in training mode
InferIdle ==
    /\ len_box_cls = 0
    /\ len_box_delta = 0
    /\ len_anchors = 0
    /\ anchor_rows = 0
    /\ box_delta = <<>>
    /\ lvl = 1
    /\ box_cls_i = <<>>
    /\ predicted_prob = <<>>
    /\ topk_idxs = <<>>
    /\ boxes_all = <<>>
    /\ scores_all = <<>>
    /\ class_idxs_all = <<>>
    /\ nms_keep = <<>>
    /\ result = <<>>

Init ==
    /\ pc = "gt"
    /\ loss_name \in {"Focal", "Multibox"}
    /\ TrainIdle
    /\ InferIdle

Next ==
    \/ GetGroundTruthImage
    \/ GetGroundTruthReturn
    \/ LossesFocal
    \/ LossesMultibox

Spec == Init /\ [][Next]_vars

----------------------------------------------------------------------------
(* Claims about training *)

\* the image whose iteration of get_ground_truth has just run
LastImage == img - 1
JustAssigned == pc = "gt" /\ img > 1
LastMatrix == MatchQualityMatrix(targets_per_image)

NumFg(n) == Cardinality({ a \in Anchors : IsForeground(gt_classes[n][a]) })
NumBg(n) == Cardinality({ a \in Anchors : IsBackground(gt_classes[n][a]) })
NumIgnore(n) == Cardinality({ a \in Anchors : gt_classes[n][a] = -1 })
NumHard(n) == Cardinality({ a \in Anchors : hard_negative[n][a] })

\* C1: under Multibox every image has exactly min(ratio * F, B) hard
\* negatives, F and B being its numbers of foreground and background
\* anchors, whatever the losses and the number of ignored anchors.
C1_HardNegativeCount ==
    (pc = "done" /\ loss_name = "Multibox") =>
        \A n \in Images :
            NumHard(n) = Min2(multibox_loss_neg_pos_ratio * NumFg(n), NumBg(n))

\* C2 as stated: every ground-truth instance of an image has an anchor that
\* is FOREGROUND and matched to it, with its class and its box as targets.
C2_EveryGTMatched ==
    JustAssigned =>
        \A g \in 1..Len(targets_per_image) :
            \E a \in Anchors :
                /\ anchor_labels[a] = FOREGROUND
                /\ gt_matched_idxs[a] = g
                /\ gt_classes[LastImage][a] = targets_per_image[g].cls
                /\ gt_anchors_deltas[LastImage][a] =
                       get_deltas(AnchorBox(a), targets_per_image[g].box)

\* anchor a attains the greatest IoU of ground truth g
AttainsRowMax(M, g, a) == M[g][a] = RowMax(M, g)

\* g is the one ground truth of greatest IoU with a, and a attains the
\* greatest IoU of no other ground truth
SoleClaimant(M, g, a) ==
    \A h \in DOMAIN M : h # g =>
        /\ FracLess(M[h][a], M[g][a])
        /\ ~AttainsRowMax(M, h, a)

\* C2 amended: every ground-truth instance g has an anchor that is
\* FOREGROUND and attains g's greatest IoU, however low; an anchor that
\* attains it is matched to g, with g's class and box as targets, when g is
\* its sole claimant.
C2_EveryGTHasForegroundAnchor ==
    JustAssigned =>
        \A g \in 1..Len(targets_per_image) :
            /\ \E a \in Anchors :
                  /\ AttainsRowMax(LastMatrix, g, a)
                  /\ anchor_labels[a] = FOREGROUND
                  /\ gt_classes[LastImage][a] \in 0..(num_classes - 1)
            /\ \A a \in Anchors :
                  (AttainsRowMax(LastMatrix, g, a) /\ SoleClaimant(LastMatrix, g, a)) =>
                      /\ anchor_labels[a] = FOREGROUND
                      /\ gt_matched_idxs[a] = g
                      /\ gt_classes[LastImage][a] = targets_per_image[g].cls
                      /\ gt_anchors_deltas[LastImage][a] =
                             get_deltas(AnchorBox(a), targets_per_image[g].box)

\* an image of two instances, the second of greatest IoU below both
\* thresholds, with an anchor of its own that is FOREGROUND for it
C2_Witness ==
    /\ JustAssigned
    /\ Len(targets_per_image) = 2
    /\ FracLess(RowMax(LastMatrix, 2), IoUThresholdLow)
    /\ \E a \in Anchors :
          /\ AttainsRowMax(LastMatrix, 2, a)
          /\ SoleClaimant(LastMatrix, 2, a)
          /\ anchor_labels[a] = FOREGROUND
          /\ gt_matched_idxs[a] = 2

\* C3: for an image with instances, a FOREGROUND anchor gets the class of
\* its matched instance, in 0..K-1, and encode(anchor, that instance's box);
\* a BACKGROUND anchor gets K, an IGNORE anchor -1; no class target lies
\* outside -1..K.
C3_TargetsFollowLabels ==
    (JustAssigned /\ Len(targets_per_image) > 0) =>
        \A a \in Anchors :
            /\ anchor_labels[a] = FOREGROUND =>
                  /\ gt_classes[LastImage][a] =
                         targets_per_image[gt_matched_idxs[a]].cls
                  /\ gt_classes[LastImage][a] \in 0..(num_classes - 1)
                  /\ gt_anchors_deltas[LastImage][a] =
                         get_deltas(AnchorBox(a),
                                    targets_per_image[gt_matched_idxs[a]].box)
            /\ anchor_labels[a] = BACKGROUND => gt_classes[LastImage][a] = num_classes
            /\ anchor_labels[a] = IGNORE => gt_classes[LastImage][a] = -1
            /\ gt_classes[LastImage][a] \in -1..num_classes

\* an image where one anchor is FOREGROUND for the second instance, of a
\* class other than the first's, and another anchor is BACKGROUND
C3_Witness ==
    /\ JustAssigned
    /\ Len(targets_per_image) = 2
    /\ targets_per_image[1].cls # targets_per_image[2].cls
    /\ targets_per_image[1].box # targets_per_image[2].box
    /\ \E a, b \in Anchors :
          /\ anchor_labels[a] = FOREGROUND
          /\ gt_matched_idxs[a] = 2
          /\ anchor_labels[b] = BACKGROUND

NoGroundTruth(i) == num_gt[i] = 0

\* C7: an image without instances gets the class target K at every anchor;
\* when no image of the batch has instances, loss_box_reg is 0.
C7_NoInstancesAllBackground ==
    /\ \A i \in 1..Len(num_gt) :
          NoGroundTruth(i) => \A a \in Anchors : gt_classes[i][a] = num_classes
    /\ (pc = "done" /\ \A i \in Images : NoGroundTruth(i)) => loss_box_reg.sum = 0

\* a finished batch without instances whose predicted deltas differ from
\* the zero targets
C7_Witness ==
    /\ pc = "done"
    /\ \A i \in Images : NoGroundTruth(i)
    /\ \E x \in Cells :
          smooth_l1_loss(pred_anchor_deltas[x[1]][x[2]],
                         gt_anchors_deltas[x[1]][x[2]]) > 0

\* C8 as stated: with no FOREGROUND anchor in the batch both strategies
\* divide by 1 and return loss_box_reg = 0 and loss_cls = 0.
C8_NoForegroundBothZero ==
    (pc = "done" /\ num_foreground = 0) =>
        /\ loss_cls.den = 1
        /\ loss_box_reg.den = 1
        /\ loss_box_reg.sum = 0
        /\ loss_cls.sum = 0

\* the focal loss of a BACKGROUND anchor's row of logits: the target is 1
\* in column K and 0 elsewhere
BackgroundFocal(v) ==
    SumOver([k \in Columns |->
                sigmoid_focal_loss(v[k], IF k = num_classes THEN 1 ELSE 0)],
            Columns)

\* C8 amended: with no FOREGROUND anchor in the batch both strategies
\* divide by 1 and return loss_box_reg = 0; loss_cls is 0 under Multibox,
\* and under Focal it is the sum of the focal losses of the BACKGROUND
\* anchors, which depends on their logits.
C8_NoForegroundDefined ==
    (pc = "done" /\ num_foreground = 0) =>
        /\ loss_cls.den = 1
        /\ loss_box_reg.den = 1
        /\ loss_box_reg.sum = 0
        /\ loss_name = "Multibox" => loss_cls.sum = 0
        /\ loss_name = "Focal" =>
              loss_cls.sum =
                  SumOver([x \in Cells |-> BackgroundFocal(pred_class_logits[x[1]][x[2]])],
                          { x \in Cells : IsBackground(gt_classes[x[1]][x[2]]) })

\* a finished batch without FOREGROUND anchors in which a BACKGROUND anchor's
\* logits favour a class
C8_Witness ==
    /\ pc = "done"
    /\ num_foreground = 0
    /\ \E x \in Cells :
          /\ IsBackground(gt_classes[x[1]][x[2]])
          /\ cross_entropy(pred_class_logits[x[1]][x[2]], num_classes) > 0

\* the softmax cross entropy of anchor a of image n against its class target
AnchorCE(n, a) == cross_entropy(pred_class_logits[n][a], gt_classes[n][a])

MultiboxDone == pc = "done" /\ loss_name = "Multibox"

\* the anchors whose cross entropy is summed: FOREGROUND or selected
Contributing == { x \in Cells : IsForeground(gt_classes[x[1]][x[2]])
                                  \/ hard_negative[x[1]][x[2]] }

\* C11: under Multibox loss_cls is the sum of the cross entropies of the
\* FOREGROUND anchors and the selected hard negatives of all images, over
\* max(1, FOREGROUND anchors of the batch); an IGNORE anchor and an
\* unselected BACKGROUND anchor contribute 0, and every selected hard
\* negative is a BACKGROUND anchor.
C11_MultiboxSum ==
    MultiboxDone =>
        /\ \A x \in Cells :
              hard_negative[x[1]][x[2]] => IsBackground(gt_classes[x[1]][x[2]])
        /\ loss_cls.sum = SumOver([x \in Cells |-> AnchorCE(x[1], x[2])], Contributing)
        /\ loss_cls.den = Max2(1, Cardinality({ x \in Cells :
                                      IsForeground(gt_classes[x[1]][x[2]]) }))
        /\ \A x \in Cells :
              /\ x \in Contributing =>
                    loss_for_all_indices[x[1]][x[2]] = AnchorCE(x[1], x[2])
              /\ x \notin Contributing => loss_for_all_indices[x[1]][x[2]] = 0

\* a Multibox batch with a FOREGROUND anchor and a selected hard negative
\* of positive loss, an unselected BACKGROUND anchor of positive loss and an
\* IGNORE anchor
C11_Witness ==
    /\ MultiboxDone
    /\ \E f, h, u, i \in Cells :
          /\ IsForeground(gt_classes[f[1]][f[2]]) /\ AnchorCE(f[1], f[2]) > 0
          /\ hard_negative[h[1]][h[2]] /\ AnchorCE(h[1], h[2]) > 0
          /\ IsBackground(gt_classes[u[1]][u[2]])
          /\ ~hard_negative[u[1]][u[2]]
          /\ AnchorCE(u[1], u[2]) > 0
          /\ gt_classes[i[1]][i[2]] = -1

\* C12: in every image no unselected BACKGROUND anchor has a cross entropy
\* greater than that of a selected hard negative of the image; the image
\* selects no more than ratio times its own FOREGROUND anchors, so none when
\* it has none, whatever the other images hold.
C12_HardestOfOwnImage ==
    MultiboxDone =>
        \A n \in Images :
            /\ \A a, b \in Anchors :
                  (/\ hard_negative[n][a]
                   /\ IsBackground(gt_classes[n][b])
                   /\ ~hard_negative[n][b]) => AnchorCE(n, b) <= AnchorCE(n, a)
            /\ NumHard(n) <= multibox_loss_neg_pos_ratio * NumFg(n)
            /\ NumFg(n) = 0 => NumHard(n) = 0

\* a Multibox batch where one image has no FOREGROUND anchor but BACKGROUND
\* anchors of positive loss, and another selects a hard negative and leaves
\* out a BACKGROUND anchor of smaller positive loss
C12_Witness ==
    /\ MultiboxDone
    /\ \E n, m \in Images :
          /\ NumFg(n) = 0
          /\ \E a \in Anchors : IsBackground(gt_classes[n][a]) /\ AnchorCE(n, a) > 0
          /\ NumFg(m) > 0
          /\ \E a, b \in Anchors :
                /\ hard_negative[m][a]
                /\ IsBackground(gt_classes[m][b])
                /\ ~hard_negative[m][b]
                /\ 0 < AnchorCE(m, b)
                /\ AnchorCE(m, b) < AnchorCE(m, a)

----------------------------------------------------------------------------
(* SSD.inference_single_image *)

Levels == 1..NumLevels
Rows == 0..(NumLevelAnchors - 1)
Classes == 0..(num_classes - 1)
FlatIdxs == 0..(NumLevelAnchors * num_classes - 1)

\* Rows of foreground scores that the softmax may give an anchor, in units
\* of score_threshold.  LowRow: class 0 below the threshold, the others at
\* it.  OneRow(s): class 0 at s, the others at the threshold.  TwoRow: class
\* 0 at 3, the others at 2.
LowRow == [c \in Classes |-> IF c = 0 THEN 0 ELSE 1]
OneRow(s) == [c \in Classes |-> IF c = 0 THEN s ELSE 1]
TwoRow == [c \in Classes |-> IF c = 0 THEN 3 ELSE 2]

\* The score grids a level may come with: one row that stands out among
\* low rows (or none); class 0 falling from row 0 to the other rows; every
\* row with every class above the threshold.
ScoreGrids ==
    { [r \in Rows |-> IF r = h THEN x ELSE LowRow] :
         h \in Rows, x \in { LowRow, OneRow(2), OneRow(3), TwoRow } }
    \cup { [r \in Rows |-> IF r = 0 THEN OneRow(3) ELSE OneRow(2)],
            [r \in Rows |-> TwoRow] }

\* cfg.MODEL.SSD.NMS_THRESH_TEST: 1/2
nms_threshold == <<1, 2>>

\* anchors[l][r]: boxes 4 wide, two steps apart, each level one step further
LevelAnchorBox(l, r) == <<2 * r + (l - 1), 0, 2 * r + (l - 1) + 4, 1>>

\* the row of deltas the head may produce, the same at every anchor of
\* every level: the anchor moved by d steps, its size kept
ShiftDelta(d) == << Frac(d, 4), <<0, 1>>, <<1, 1>>, <<1, 1>> >>
Shifts == 0..1

\* Box2BoxTransform.apply_deltas(delta, anchor): the centre moves by dx
\* widths and dy heights, the size is scaled by exp(dw), exp(dh)
apply_deltas(delta, b) ==
    LET w == b[3] - b[1]
        h == b[4] - b[2]
        cx2 == (b[1] + b[3]) + (2 * w * delta[1][1]) \div delta[1][2]
        cy2 == (b[2] + b[4]) + (2 * h * delta[2][1]) \div delta[2][2]
        pw == (w * delta[3][1]) \div delta[3][2]
        ph == (h * delta[4][1]) \div delta[4][2]
    IN  << (cx2 - pw) \div 2, (cy2 - ph) \div 2, (cx2 + pw) \div 2, (cy2 + ph) \div 2 >>

\* lines 354-356: softmax, drop the background column, flatten row by row
Flatten(probs) == [f \in FlatIdxs |-> probs[f \div num_classes][f % num_classes]]

\* line 359: min(topk_candidates, box_reg_i.size(0))
NumTopk(rows) == Min2(topk_candidates, rows)

KeepScoreAtThreshold(p) == p >= score_threshold

\* line 366
KeepScore(p) == p > score_threshold

\* lines 370-371
AnchorOf(f) == f \div num_classes
ClassOf(f) == f % num_classes

\* line 361, sort(descending=True): an order of the flat indices by falling
\* score; the order of equal scores is whatever the sort makes it
SortDescending(flat) == OrdersOf(FlatIdxs, flat)

\* the levels the loop of line 351 visits: zip stops with the shortest list
ZipLen == Min2(len_box_cls, Min2(len_box_delta, len_anchors))

InferenceLevel ==
    /\ pc = "level"
    /\ lvl <= ZipLen
    /\ \E probs \in ScoreGrids :
          LET flat == Flatten(probs)
              num_topk == NumTopk(NumLevelAnchors)
          IN  \E order \in SortDescending(flat) :
                LET top == SubSeq(order, 1, num_topk)
                    kept == SelectSeq(top, LAMBDA f : KeepScore(flat[f]))
                IN  /\ box_cls_i' = flat
                    /\ predicted_prob' = [k \in DOMAIN kept |-> flat[kept[k]]]
                    /\ topk_idxs' = kept
                    /\ IF \E k \in DOMAIN kept : AnchorOf(kept[k]) >= anchor_rows
                       THEN \* anchors_i[anchor_idxs] raises IndexError, line 374
                            /\ pc' = "error"
                            /\ UNCHANGED <<boxes_all, scores_all, class_idxs_all, lvl>>
                       ELSE /\ pc' = "level"
                            /\ lvl' = lvl + 1
                            /\ boxes_all' = boxes_all \o
                                  [k \in DOMAIN kept |->
                                      apply_deltas(box_delta,
                                                   LevelAnchorBox(lvl, AnchorOf(kept[k])))]
                            /\ scores_all' = scores_all \o
                                  [k \in DOMAIN kept |-> flat[kept[k]]]
                            /\ class_idxs_all' = class_idxs_all \o
                                  [k \in DOMAIN kept |-> ClassOf(kept[k])]
    /\ UNCHANGED <<len_box_cls, len_box_delta, len_anchors, anchor_rows,
                   box_delta, nms_keep, result, loss_name>>
    /\ UNCHANGED <<img, targets_per_image, gt_matched_idxs, anchor_labels, num_gt,
                   gt_classes, gt_anchors_deltas, pred_class_logits,
                   pred_anchor_deltas, num_foreground, gt_classes_target,
                   hard_negative, loss_for_all_indices, loss_cls, loss_box_reg>>

Candidates == 1..Len(scores_all)

Overlap(a, b) == FracLess(nms_threshold, IoU(a, b))

\* greedy suppression: of the candidates left, those that a kept candidate
\* of their class overlaps are dropped; any one of the highest-scoring
\* others is kept next (the order of equal scores is whatever the sort makes
\* it), until none is left
RECURSIVE Greedy(_, _, _, _, _)
Greedy(rest, kept, boxes, scores, classes) ==
    LET live == { c \in rest :
                    ~\E j \in 1..Len(kept) :
                        /\ classes[kept[j]] = classes[c]
                        /\ Overlap(boxes[kept[j]], boxes[c]) }
        top == { c \in live : \A d \in live : scores[d] <= scores[c] }
    IN  IF live = {} THEN { kept }
        ELSE UNION { Greedy(live \ {c}, Append(kept, c), boxes, scores, classes) :
                        c \in top }

\* batched_nms: the lists of candidates it may keep, each by falling score
batched_nms(boxes, scores, classes) ==
    Greedy(1..Len(scores), <<>>, boxes, scores, classes)

NmsIdxsOneClass(classes) == [k \in DOMAIN classes |-> 0]

\* line 385: the idxs argument of batched_nms is class_idxs_all
NmsIdxs(classes) == classes

\* line 386
Cap(keep) == SubSeq(keep, 1, Min2(Len(keep), max_detections_per_image))

\* lines 382-392, once the loop over the levels is over
InferenceFinish ==
    /\ pc = "level"
    /\ lvl > ZipLen
    /\ \E keep \in batched_nms(boxes_all, scores_all, NmsIdxs(class_idxs_all)) :
          LET capped == Cap(keep)
          IN  /\ nms_keep' = keep
              /\ result' = [k \in DOMAIN capped |->
                              [pred_box   |-> boxes_all[capped[k]],
                               score      |-> scores_all[capped[k]],
                               pred_class |-> class_idxs_all[capped[k]]]]
    /\ pc' = "done"
    /\ box_cls_i' = <<>>
    /\ predicted_prob' = <<>>
    /\ topk_idxs' = <<>>
    /\ UNCHANGED <<len_box_cls, len_box_delta, len_anchors, anchor_rows,
                   box_delta, lvl, boxes_all, scores_all, class_idxs_all,
                   loss_name>>
    /\ UNCHANGED <<img, targets_per_image, gt_matched_idxs, anchor_labels, num_gt,
                   gt_classes, gt_anchors_deltas, pred_class_logits,
                   pred_anchor_deltas, num_foreground, gt_classes_target,
                   hard_negative, loss_for_all_indices, loss_cls, loss_box_reg>>

\* the lists given to inference_single_image: as many entries as levels, or
\* fewer in some of them; every entry of anchors has as many anchors as the
\* level has prediction rows, or one fewer
InitInfer ==
    /\ pc = "level"
    /\ loss_name = "Multibox"
    /\ TrainIdle
    /\ len_box_cls \in Levels
    /\ len_box_delta \in Levels
    /\ len_anchors \in Levels
    /\ anchor_rows \in {NumLevelAnchors - 1, NumLevelAnchors}
    /\ box_delta \in { ShiftDelta(d) : d \in Shifts }
    /\ lvl = 1
    /\ box_cls_i = <<>>
    /\ predicted_prob = <<>>
    /\ topk_idxs = <<>>
    /\ boxes_all = <<>>
    /\ scores_all = <<>>
    /\ class_idxs_all = <<>>
    /\ nms_keep = <<>>
    /\ result = <<>>

NextInfer ==
    \/ InferenceLevel
    \/ InferenceFinish

SpecInfer == InitInfer /\ [][NextInfer]_vars

----------------------------------------------------------------------------
(* Claims about inference *)

Returned == pc = "done"
Kept == { nms_keep[k] : k \in DOMAIN nms_keep }
SameClass(i, j) == class_idxs_all[i] = class_idxs_all[j]
Overlapping(i, j) == Overlap(boxes_all[i], boxes_all[j])

\* C4 as stated: of two candidates of one class that overlap beyond the
\* threshold only the higher-scoring one survives suppression, and no
\* candidate is suppressed by a candidate of another class.
C4_OnlyHigherSurvives ==
    Returned =>
        /\ \A i, j \in Candidates :
              (SameClass(i, j) /\ Overlapping(i, j) /\ scores_all[i] > scores_all[j])
                  => j \notin Kept
        /\ \A j \in Candidates \ Kept :
              \E i \in Kept : SameClass(i, j) /\ Overlapping(i, j)

\* C4 amended: two candidates of one class that overlap beyond the
\* threshold never both survive, and the lower-scoring one is suppressed
\* whenever the higher-scoring one survives; a candidate is suppressed only
\* by a surviving candidate of its own class that overlaps it and scores no
\* lower, so candidates of different classes never suppress each other.
C4_ClassAwareSuppression ==
    Returned =>
        /\ \A i, j \in Candidates :
              (i # j /\ SameClass(i, j) /\ Overlapping(i, j))
                  => ~(i \in Kept /\ j \in Kept)
        /\ \A j \in Candidates \ Kept :
              \E i \in Kept :
                  /\ SameClass(i, j)
                  /\ Overlapping(i, j)
                  /\ scores_all[i] >= scores_all[j]

\* two candidates of different classes on the same box both survive, and a
\* third candidate is suppressed by a higher-scoring one of its class
C4_Witness ==
    /\ Returned
    /\ \E i, j \in Kept :
          /\ ~SameClass(i, j)
          /\ boxes_all[i] = boxes_all[j]
    /\ \E i \in Kept, j \in Candidates \ Kept :
          /\ SameClass(i, j)
          /\ Overlapping(i, j)
          /\ scores_all[i] > scores_all[j]

\* a level's iteration has just appended its candidates
LevelDecoded == pc = "level" /\ lvl > 1
NumAbove == Cardinality({ f \in FlatIdxs : KeepScore(box_cls_i[f]) })

\* topk_candidates, or the size of the grid when that is smaller
NumTopkOfGrid(rows) == Min2(topk_candidates, rows * num_classes)

\* C6: a level's candidates are the topk_candidates highest-scoring entries
\* of its flattened score grid (all entries of a smaller grid), and exactly
\* those of them that score above score_threshold are decoded.
C6_TopkOfGrid ==
    LevelDecoded =>
        /\ Len(topk_idxs) = Min2(NumTopkOfGrid(NumLevelAnchors), NumAbove)
        /\ \A k \in DOMAIN topk_idxs : KeepScore(box_cls_i[topk_idxs[k]])
        /\ \A k \in DOMAIN topk_idxs :
              \A f \in FlatIdxs :
                  box_cls_i[f] > box_cls_i[topk_idxs[k]] =>
                      \E m \in DOMAIN topk_idxs : topk_idxs[m] = f

IsSortedByScore(r) == \A i, j \in DOMAIN r : i < j => r[i].score >= r[j].score

\* C9: the detections returned are in order of non-increasing score, at
\* most max_detections_per_image, the highest-scoring survivors of
\* suppression, each of a class in 0..K-1 and of a score above
\* score_threshold.
C9_DetectionsOrderedAndCapped ==
    Returned =>
        /\ IsSortedByScore(result)
        /\ Len(result) = Min2(Len(nms_keep), max_detections_per_image)
        /\ \A k \in DOMAIN result :
              /\ result[k].score = scores_all[nms_keep[k]]
              /\ result[k].pred_class = class_idxs_all[nms_keep[k]]
              /\ result[k].pred_box = boxes_all[nms_keep[k]]
              /\ result[k].pred_class \in Classes
              /\ result[k].score > score_threshold
        /\ \A k \in DOMAIN result :
              \A j \in DOMAIN nms_keep :
                  j > Len(result) => scores_all[nms_keep[j]] <= result[k].score

\* more candidates survive than may be returned, from both levels and of
\* different scores
C9_Witness ==
    /\ Returned
    /\ Len(nms_keep) > max_detections_per_image
    /\ Len(result) = max_detections_per_image
    /\ result[1].score > result[Len(result)].score
    /\ lvl > 2

Mismatch ==
    \/ len_box_cls # len_box_delta
    \/ len_box_cls # len_anchors
    \/ anchor_rows # NumLevelAnchors

\* C10: when the lists of class logits, box deltas and anchors differ in
\* their numbers of levels, or a level has not as many anchors as
\* prediction rows, the call reports an error and returns no detections.
C10_MismatchFailsFast ==
    Mismatch => ~Returned

====
